---- MODULE Spec2Model ----
(***************************************************************************)
(* Data access layer of dal/model.py: the type conversion functions, the   *)
(* password codec, the Table model (add / update / get / create) and the   *)
(* SQLiteManager that owns the connection.                                 *)
(***************************************************************************)
EXTENDS Integers, Sequences, FiniteSets, TLC

(***************************************************************************)
(* Bounds of the model.                                                    *)
(***************************************************************************)
\* number of distinct password texts
NumPasswords == 5
\* number of distinct salts os.urandom may return
NumSalts == 4
\* years checked next to each end of [0, 9999]
YearSpan == 1
\* largest row id the store holds
MaxId == 2
\* calls of add / update / get in one run
MaxOps == 2
\* number of distinct salts drawn while a row is written
NumCallSalts == 1

(***************************************************************************)
(* Program constants.                                                      *)
(***************************************************************************)
\* os.urandom(32), key[:32]
SaltLen == 32
\* digest size of pbkdf2_hmac('sha256', ...)
KeyLen == 32

Passwords == 1..NumPasswords
Salts == 1..NumSalts

(***************************************************************************)
(* Python values. None and the stored NULL are tagged so that they compare *)
(* unequal to every other value.                                           *)
(***************************************************************************)
None == <<"None">>
Val(v) == <<"val", v>>

(***************************************************************************)
(* date_to_sql / date_to_dict                                              *)
(***************************************************************************)
date_to_sql(date) == date[1] * 10^4 + date[2] * 10^2 + date[3]

date_to_dict_day_mod_year(date) ==
    LET year == date \div 10^4
        month == (date \div 10^2) - year * 10^2
        day == date - year * 10^4
    IN  <<year, month, day>>

date_to_dict(date) ==
    LET year == date \div 10^4
        month == (date \div 10^2) - year * 10^2
        day == date - (date \div 10^2) * 10^2
    IN  <<year, month, day>>

(***************************************************************************)
(* Password codec.  os.urandom(32) is one of NumSalts byte strings;        *)
(* pbkdf2_hmac is a function of (password, salt) into KeyLen bytes that is *)
(* injective in the password.                                              *)
(***************************************************************************)
urandom(s) == [i \in 1..SaltLen |-> (s * i) % 256]

pbkdf2_hmac(password, salt) ==
    [i \in 1..KeyLen |-> (password * 37 + salt[i] + i) % 256]

store_password(password, s) ==
    LET salt == urandom(s)
        key == pbkdf2_hmac(password, salt)
    IN  salt \o key

get_password_split_31(key) ==
    <<SubSeq(key, 1, SaltLen - 1), SubSeq(key, SaltLen, Len(key))>>

get_password(key) ==
    <<SubSeq(key, 1, SaltLen), SubSeq(key, SaltLen + 1, Len(key))>>

match_password(password, key) ==
    LET salt == key[1]
        hashed == key[2]
        derived == pbkdf2_hmac(password, salt)
    IN  derived = hashed

(***************************************************************************)
(* Ordered dictionaries (a Python dict keeps insertion order): a sequence  *)
(* of <<key, value>> pairs.                                                *)
(***************************************************************************)
Range(s) == {s[i] : i \in DOMAIN s}
Index(s, x) == CHOOSE i \in DOMAIN s : s[i] = x
DictKeys(d) == {d[i][1] : i \in DOMAIN d}
DictGet(d, k) == d[CHOOSE i \in DOMAIN d : d[i][1] = k][2]
DictSet(d, k, v) ==
    IF k \in DictKeys(d)
    THEN [i \in DOMAIN d |-> IF d[i][1] = k THEN <<k, v>> ELSE d[i]]
    ELSE Append(d, <<k, v>>)

RECURSIVE DictUpdate(_, _)
DictUpdate(d, pairs) ==
    IF pairs = <<>> THEN d
    ELSE DictUpdate(DictSet(d, pairs[1][1], pairs[1][2]), Tail(pairs))

Kind(x) == x[1]

(***************************************************************************)
(* Table.data_conversor: (forward, backward) per abstract type.  Stored    *)
(* and returned values are None or Val(v).  A conversion that raises gives *)
(* <<"TypeError">>.  real and money (floating point) are not modelled.     *)
(***************************************************************************)
Forward(d_type, x, s) ==
    CASE d_type = "bit" -> Val(IF x THEN 1 ELSE 0)
      [] d_type = "int" -> Val(x)
      [] d_type = "text" -> Val(x)
      [] d_type = "date" -> Val(date_to_sql(x))
      [] d_type = "pwd" -> Val(store_password(x, s))

Backward(d_type, col) ==
    CASE d_type = "bit" -> <<"ok", Val(col # None /\ col # Val(0))>>
      [] d_type = "text" -> <<"ok", col>>
      [] col = None -> <<"TypeError">>
      [] d_type = "int" -> <<"ok", col>>
      [] d_type = "date" -> <<"ok", Val(date_to_dict(col[2]))>>
      [] d_type = "pwd" -> <<"ok", Val(get_password(col[2]))>>

(***************************************************************************)
(* The field set of a call: the declared fields that are keys of data, in  *)
(* declaration order, transposed by zip: the empty tuple, or               *)
(* <<names, values>>.                                                      *)
(***************************************************************************)
Transpose(pairs) ==
    IF pairs = <<>> THEN <<>>
    ELSE << [i \in DOMAIN pairs |-> pairs[i][1]],
            [i \in DOMAIN pairs |-> pairs[i][2]] >>

InData(fields, data) == SelectSeq(fields, LAMBDA f : f[1] \in DOMAIN data)

add_data_fields(fields, data, s) ==
    LET sel == InData(fields, data)
    IN  Transpose([i \in DOMAIN sel |->
                     <<sel[i][1], Forward(sel[i][2], data[sel[i][1]], s)>>])

update_data_fields_unfiltered(fields, data, s) ==
    LET sel == SelectSeq(fields,
                   LAMBDA f : f[1] \in DOMAIN data \/ f[2] = "text")
    IN  Transpose([i \in DOMAIN sel |->
                     <<sel[i][1],
                       IF sel[i][1] \in DOMAIN data
                       THEN Forward(sel[i][2], data[sel[i][1]], s)
                       ELSE None>>])

update_data_fields(fields, data, s) ==
    LET sel == InData(fields, data)
    IN  Transpose([i \in DOMAIN sel |->
                     <<sel[i][1], Forward(sel[i][2], data[sel[i][1]], s)>>])

get_data_fields(fields, data) ==
    LET sel == InData(fields, data)
    IN  Transpose([i \in DOMAIN sel |-> <<sel[i][1], sel[i][2]>>])

(***************************************************************************)
(* The storage engine (sqlite3) on one table whose id column is            *)
(* "integer PRIMARY KEY", the row id.  rows maps a row id to the other     *)
(* columns.  A statement either fails (<<"error", ...>>) or applies whole. *)
(***************************************************************************)
StoredCols(fields) == {fields[i][1] : i \in DOMAIN fields} \ {"id"}

Placeholders(fragment) ==
    CASE fragment = "id = ?" -> 1
      [] OTHER -> 0

ValidFragment(fragment) == fragment \in {"id = ?", "1=1"}

Matches(i, row, fragment, wp) ==
    CASE fragment = "id = ?" -> wp[1] = Val(i)
      [] OTHER -> TRUE

Matching(tbl, fragment, wp) ==
    {i \in DOMAIN tbl : Matches(i, tbl[i], fragment, wp)}

MaxOf(S) == IF S = {} THEN 0 ELSE CHOOSE m \in S : \A x \in S : x <= m

ExecInsert(tbl, fields, cols, params) ==
    LET newid == IF "id" \in Range(cols)
                 THEN params[Index(cols, "id")][2]
                 ELSE MaxOf(DOMAIN tbl) + 1
        row == [f \in StoredCols(fields) |->
                  IF f \in Range(cols) THEN params[Index(cols, f)] ELSE None]
    IN  IF Len(params) # Len(cols) THEN <<"error", "ProgrammingError">>
        ELSE IF newid \in DOMAIN tbl THEN <<"error", "IntegrityError">>
        ELSE <<"ok",
               [i \in DOMAIN tbl \cup {newid} |->
                  IF i = newid THEN row ELSE tbl[i]],
               newid>>

ExecUpdate(tbl, fields, cols, params, fragment) ==
    LET n == Len(cols)
        wp == SubSeq(params, n + 1, Len(params))
        M == Matching(tbl, fragment, wp)
        newrow(i) == [f \in StoredCols(fields) |->
                        IF f \in Range(cols) THEN params[Index(cols, f)]
                        ELSE tbl[i][f]]
    IN  IF ~ValidFragment(fragment) THEN <<"error", "OperationalError">>
        ELSE IF Len(params) # n + Placeholders(fragment)
        THEN <<"error", "ProgrammingError">>
        ELSE IF "id" \notin Range(cols)
        THEN <<"ok", [i \in DOMAIN tbl |->
                        IF i \in M THEN newrow(i) ELSE tbl[i]]>>
        ELSE LET k == params[Index(cols, "id")][2]
             IN  IF M = {} THEN <<"ok", tbl>>
                 ELSE IF Cardinality(M) > 1 \/ k \in (DOMAIN tbl \ M)
                 THEN <<"error", "IntegrityError">>
                 ELSE LET m == CHOOSE i \in M : TRUE
                      IN  <<"ok",
                            [i \in (DOMAIN tbl \ {m}) \cup {k} |->
                               IF i = k THEN newrow(m) ELSE tbl[i]]>>

Ascending(S) ==
    SelectSeq([i \in 1..MaxOf(S) |-> i], LAMBDA i : i \in S)

ExecSelect(tbl, cols, fragment, wp) ==
    LET ids == Ascending(Matching(tbl, fragment, wp))
    IN  IF ~ValidFragment(fragment) THEN <<"error", "OperationalError">>
        ELSE IF Len(wp) # Placeholders(fragment)
        THEN <<"error", "ProgrammingError">>
        ELSE <<"ok",
               [r \in DOMAIN ids |->
                  [c \in DOMAIN cols |->
                     IF cols[c] = "id" THEN Val(ids[r])
                     ELSE tbl[ids[r]][cols[c]]]]>>

(***************************************************************************)
(* Table.get, lines 203-209: one mapping per row, every column converted   *)
(* back by its field's type.                                               *)
(***************************************************************************)
convert_row_unconverted(item, convs, names) ==
    [n \in Range(names) |-> <<"ok", item[Index(names, n)]>>]

convert_row(item, convs, names) ==
    [n \in Range(names) |->
        Backward(convs[Index(names, n)], item[Index(names, n)])]

convert_output(output, convs, names) ==
    LET conv == [r \in DOMAIN output |-> convert_row(output[r], convs, names)]
    IN  IF \E r \in DOMAIN conv : \E n \in DOMAIN conv[r] :
              Kind(conv[r][n]) = "TypeError"
        THEN <<"raise", "TypeError">>
        ELSE <<"return",
               Val([r \in DOMAIN conv |->
                      [n \in DOMAIN conv[r] |-> conv[r][n][2]]])>>

(***************************************************************************)
(* State.                                                                  *)
(***************************************************************************)
VARIABLES
    stage,        \* position in the conversion round trip
    inp,          \* its input
    mid,          \* the stored form
    out,          \* the value converted back
    tried,        \* the salt drawn, the password offered, the answer
    model,        \* the schema map given to SQLiteManager: <<name, fields>>
    fileExists,   \* os.path.isfile(database_file)
    dbTables,     \* tables the store holds
    rows,         \* rows of table users: row id -> columns
    live,         \* connections that are open
    attrs,        \* SQLiteManager.__dict__
    pc,           \* position of the running call
    op,           \* the running (or last) call
    createIdx,    \* position of create_database in __dict__
    createCalled, \* tables create() was invoked on
    data,         \* argument data of the call
    condition,    \* argument condition of the call
    data_fields,  \* local data_fields
    output,       \* local output
    result,       \* what the call gave its caller
    failure,      \* the step of the call that failed
    rows0,        \* rows when the call started
    live0,        \* open connections when the call started
    lastAdd,      \* the add that completed just before this call
    opsLeft       \* calls the caller still makes

pureVars == <<stage, inp, mid, out, tried>>
storeVars == <<fileExists, dbTables, rows>>
callVars == <<data, condition, data_fields, rows0, live0, lastAdd, opsLeft>>
mgrVars == <<model, fileExists, dbTables, rows, live, attrs, pc, op,
             createIdx, createCalled, data, condition, data_fields, output,
             result, failure, rows0, live0, lastAdd, opsLeft>>
vars == <<stage, inp, mid, out, tried, model, fileExists, dbTables, rows,
          live, attrs, pc, op, createIdx, createCalled, data, condition,
          data_fields, output, result, failure, rows0, live0, lastAdd,
          opsLeft>>

(***************************************************************************)
(* Inputs of the manager runs.                                             *)
(***************************************************************************)
DbFile == <<"str", "app.db">>

UsersFields == << <<"id", "int", "PRIMARY KEY">>,
                  <<"name", "text", "">>,
                  <<"pwd", "pwd", "">> >>
OtherFields == << <<"a", "int", "">> >>

UsersOnly == << <<"users", UsersFields>> >>

\* schema maps whose table names are arbitrary strings
SchemaMaps ==
    { <<>>, UsersOnly }
    \cup { << <<"users", UsersFields>>, <<n, OtherFields>> >> :
             n \in {"orders", "connection", "cursor", "db_file"} }

Names == {"alice", "bob"}
CallPasswords == 1..2
CallSalts == 1..NumCallSalts

KeySets == { {"nick"}, {"name", "nick"}, {"name", "pwd"}, {"id", "name"} }

\* the values a key set leaves open
IdsFor(K) == IF "id" \in K THEN 1..MaxId ELSE {1}
NamesFor(K) == IF "name" \in K THEN Names ELSE {"alice"}
PasswordsFor(K) == IF "pwd" \in K THEN CallPasswords ELSE {1}
SaltsFor(K) == IF "pwd" \in K THEN CallSalts ELSE {1}

\* the data argument of add and update
MkData(K, i, n, p) ==
    [k \in K |-> CASE k = "id" -> i
                  [] k = "name" -> n
                  [] k = "pwd" -> p
                  [] OTHER -> "x"]

\* the data argument of get: only its keys matter
GetDatas == { [k \in K |-> 0] : K \in KeySets }

Conditions ==
    { <<"id = ?", <<Val(k)>> >> : k \in 1..MaxId }
    \cup { <<"1=1", <<>> >>,
           <<"idd = ?", <<Val(1)>> >> }

NoCondition == <<"", <<>> >>
NoResult == <<"none">>
NoAdd == <<"none">>
NoData == [k \in {} |-> 0]

NoRows == [i \in {} |-> None]

\* an existing store: the rows add({name: "alice", pwd: 1}) and
\* add({name: "bob"}) left in it
SeedRows ==
    [i \in 1..2 |->
        IF i = 1
        THEN [f \in {"name", "pwd"} |->
                IF f = "name" THEN Val("alice") ELSE Val(store_password(1, 1))]
        ELSE [f \in {"name", "pwd"} |->
                IF f = "name" THEN Val("bob") ELSE None]]

PureAtRest ==
    /\ stage = "off"
    /\ inp = <<>>
    /\ mid = <<>>
    /\ out = <<>>
    /\ tried = <<>>

MgrInit(maps, ops) ==
    /\ model \in maps
    /\ fileExists \in BOOLEAN
    /\ dbTables = IF fileExists THEN DictKeys(model) ELSE {}
    /\ rows \in (IF fileExists THEN {NoRows, SeedRows} ELSE {NoRows})
    /\ live = {}
    /\ attrs = <<>>
    /\ pc = "new"
    /\ op = "none"
    /\ createIdx = 0
    /\ createCalled = {}
    /\ data = NoData
    /\ condition = NoCondition
    /\ data_fields = <<>>
    /\ output = None
    /\ result = NoResult
    /\ failure = "none"
    /\ rows0 = rows
    /\ live0 = {}
    /\ lastAdd = NoAdd
    /\ opsLeft = ops

MgrAtRest ==
    /\ model = <<>>
    /\ fileExists = FALSE
    /\ dbTables = {}
    /\ rows = NoRows
    /\ live = {}
    /\ attrs = <<>>
    /\ pc = "off"
    /\ op = "none"
    /\ createIdx = 0
    /\ createCalled = {}
    /\ data = NoData
    /\ condition = NoCondition
    /\ data_fields = <<>>
    /\ output = None
    /\ result = NoResult
    /\ failure = "none"
    /\ rows0 = rows
    /\ live0 = {}
    /\ lastAdd = NoAdd
    /\ opsLeft = 0

Init == PureAtRest /\ MgrInit({UsersOnly}, MaxOps)

InitSchema == PureAtRest /\ MgrInit(SchemaMaps, 1)

(***************************************************************************)
(* SQLiteManager.__init__, lines 59-65.                                    *)
(***************************************************************************)
TableAttrs(m) == [i \in DOMAIN m |-> <<m[i][1], <<"Table", m[i][1], m[i][2]>> >>]

InitAttrs(m) ==
    DictUpdate(
        DictUpdate(<< <<"db_file", DbFile>> >>, TableAttrs(m)),
        << <<"connection", None>>, <<"cursor", None>> >>)

Construct ==
    /\ pc = "new"
    /\ attrs' = InitAttrs(model)
    /\ IF fileExists
       THEN pc' = "idle" /\ op' = "none"
       ELSE pc' = "connect72" /\ op' = "init"
    /\ UNCHANGED <<model, storeVars, live, createIdx, createCalled, callVars,
                   output, result, failure, pureVars>>

(***************************************************************************)
(* SQLiteManager.connect, line 72 and line 73.                             *)
(***************************************************************************)
Handles == {j \in DOMAIN attrs :
               /\ attrs[j][1] \in {"connection", "cursor"}
               /\ Kind(attrs[j][2]) \in {"Connection", "Cursor"}}

Referenced ==
    IF pc = "ctor_failed" THEN {}
    ELSE {attrs[j][2][2] : j \in Handles}

\* connection.close(): closed connections behave alike, they are handle 0
Closed(d, c) ==
    [j \in DOMAIN d |->
        IF j \in Handles /\ d[j][2][2] = c
        THEN <<d[j][1], <<Kind(d[j][2]), 0>> >>
        ELSE d[j]]

FreshConn == CHOOSE c \in 1..3 :
    /\ c \notin live \cup Referenced
    /\ \A d \in 1..3 : d \notin live \cup Referenced => c <= d

AfterConnect ==
    CASE op = "init" -> "create_database"
      [] op = "create" -> "create_exec"
      [] OTHER -> "exec"

ConnectOpen ==
    /\ pc = "connect72"
    /\ \E opened \in BOOLEAN :
        IF opened /\ Kind(DictGet(attrs, "db_file")) = "str"
        THEN /\ live' = live \cup {FreshConn}
             /\ attrs' = DictSet(attrs, "connection", <<"Connection", FreshConn>>)
             /\ fileExists' = TRUE
             /\ pc' = "connect73"
             /\ UNCHANGED failure
        ELSE /\ failure' = "connect"
             /\ pc' = AfterConnect
             /\ UNCHANGED <<live, attrs, fileExists>>
    /\ UNCHANGED <<model, dbTables, rows, op, createIdx, createCalled, callVars,
                   output, result, pureVars>>

ConnectCursor ==
    /\ pc = "connect73"
    /\ attrs' = DictSet(attrs, "cursor",
                        <<"Cursor", DictGet(attrs, "connection")[2]>>)
    /\ pc' = AfterConnect
    /\ UNCHANGED <<model, storeVars, live, op, createIdx, createCalled,
                   callVars, output, result, failure, pureVars>>

\* an open connection nothing refers to is closed when it is collected
Finalize ==
    /\ pc # "off"
    /\ \E c \in live \ Referenced : live' = live \ {c}
    /\ UNCHANGED <<model, storeVars, attrs, pc, op, createIdx, createCalled,
                   callVars, output, result, failure, pureVars>>

CursorUsable ==
    /\ Kind(DictGet(attrs, "cursor")) = "Cursor"
    /\ DictGet(attrs, "cursor")[2] \in live

(***************************************************************************)
(* SQLiteManager.create_database, lines 79-81, and Table.create.           *)
(***************************************************************************)
NextTables == {j \in DOMAIN attrs : j > createIdx /\ Kind(attrs[j][2]) = "Table"}

CreateDatabase ==
    /\ pc = "create_database"
    /\ IF NextTables = {}
       THEN /\ pc' = "idle"
            /\ op' = "none"
            /\ UNCHANGED <<createIdx, createCalled>>
       ELSE LET j == CHOOSE n \in NextTables : \A x \in NextTables : n <= x
            IN  /\ createIdx' = j
                /\ createCalled' = createCalled \cup {attrs[j][1]}
                /\ op' = "create"
                /\ pc' = "connect72"
    /\ UNCHANGED <<model, storeVars, live, attrs, callVars, output, result,
                   failure, pureVars>>

CreateExecute ==
    /\ pc = "create_exec"
    /\ \E engine \in BOOLEAN :
        IF CursorUsable /\ engine /\ attrs[createIdx][2][2] \notin dbTables
        THEN dbTables' = dbTables \cup {attrs[createIdx][2][2]}
        ELSE UNCHANGED dbTables
    /\ pc' = "create_finally"
    /\ UNCHANGED <<model, fileExists, rows, live, attrs, op, createIdx,
                   createCalled, callVars, output, result, failure, pureVars>>

CreateFinally ==
    /\ pc = "create_finally"
    /\ IF Kind(DictGet(attrs, "connection")) = "None"
       THEN /\ pc' = "ctor_failed"
            /\ UNCHANGED <<live, attrs>>
       ELSE /\ live' = live \ {DictGet(attrs, "connection")[2]}
            /\ attrs' = Closed(attrs, DictGet(attrs, "connection")[2])
            /\ pc' = "create_database"
    /\ UNCHANGED <<model, storeVars, op, createIdx, createCalled,
                   callVars, output, result, failure, pureVars>>

(***************************************************************************)
(* Table.add / Table.update / Table.get on manager.users: the statement is *)
(* built (lines 119-129, 151-159, 178-187), then the try block runs.       *)
(***************************************************************************)
CanCall ==
    /\ pc \in {"idle", "done"}
    /\ opsLeft > 0
    /\ "users" \in DictKeys(attrs)
    /\ Kind(DictGet(attrs, "users")) = "Table"

Users == DictGet(attrs, "users")

\* the add that returned a row id right before the call that starts now
CompletedAdd ==
    IF /\ pc = "done"
       /\ op = "add"
       /\ failure = "none"
       /\ Kind(result) = "return"
       /\ result[2] # None
    THEN <<"add", result[2][2], data>>
    ELSE NoAdd

\* data_fields[0] of the empty tuple raises IndexError before connect()
Begin(name, df) ==
    /\ op' = name
    /\ data_fields' = df
    /\ output' = None
    /\ failure' = "none"
    /\ rows0' = rows
    /\ live0' = live
    /\ lastAdd' = CompletedAdd
    /\ opsLeft' = opsLeft - 1
    /\ IF df = <<>>
       THEN result' = <<"raise", "IndexError">> /\ pc' = "done"
       ELSE result' = NoResult /\ pc' = "connect72"
    /\ UNCHANGED <<model, storeVars, live, attrs, createIdx, createCalled,
                   pureVars>>

Add ==
    /\ CanCall
    /\ \E K \in KeySets : \E i \in IdsFor(K), n \in NamesFor(K),
          p \in PasswordsFor(K), s \in SaltsFor(K) :
        /\ "id" \in K \/ MaxOf(DOMAIN rows) < MaxId
        /\ data' = MkData(K, i, n, p)
        /\ condition' = NoCondition
        /\ Begin("add", add_data_fields(Users[3], MkData(K, i, n, p), s))

Update ==
    /\ CanCall
    /\ \E K \in KeySets : \E i \in IdsFor(K), n \in NamesFor(K),
          p \in PasswordsFor(K), s \in SaltsFor(K), c \in Conditions :
        /\ data' = MkData(K, i, n, p)
        /\ condition' = c
        /\ Begin("update", update_data_fields(Users[3], MkData(K, i, n, p), s))

Get ==
    /\ CanCall
    /\ \E d \in GetDatas : \E c \in Conditions :
        /\ data' = d
        /\ condition' = c
        /\ Begin("get", get_data_fields(Users[3], d))

\* the engine can run a statement on table users
Runnable == CursorUsable /\ Users[2] \in dbTables

\* line 136 / 165: a commit that raises leaves the statement unapplied
Commit(newrows) ==
    \E committed \in BOOLEAN :
        IF committed
        THEN rows' = newrows /\ UNCHANGED failure
        ELSE failure' = "commit" /\ UNCHANGED rows

Failed ==
    /\ failure' = (IF failure = "none" THEN "execute" ELSE failure)
    /\ UNCHANGED <<rows, output>>

add_params(df) == df[2]

\* lines 134-136
AddExecute ==
    /\ pc = "exec" /\ op = "add"
    /\ LET res == ExecInsert(rows, Users[3], data_fields[1],
                             add_params(data_fields))
       IN  \E engine \in BOOLEAN :
             IF Runnable /\ engine /\ res[1] = "ok"
             THEN /\ output' = Val(res[3])
                  /\ Commit(res[2])
             ELSE Failed
    /\ pc' = "finally"
    /\ UNCHANGED <<model, fileExists, dbTables, live, attrs, op, createIdx,
                   createCalled, callVars, result, pureVars>>

update_params(df, cond) == df[2] \o cond[2]

\* lines 163-165
UpdateExecute ==
    /\ pc = "exec" /\ op = "update"
    /\ LET res == ExecUpdate(rows, Users[3], data_fields[1],
                             update_params(data_fields, condition),
                             condition[1])
       IN  \E engine \in BOOLEAN :
             IF Runnable /\ engine /\ res[1] = "ok"
             THEN /\ UNCHANGED output
                  /\ Commit(res[2])
             ELSE Failed
    /\ pc' = "finally"
    /\ UNCHANGED <<model, fileExists, dbTables, live, attrs, op, createIdx,
                   createCalled, callVars, result, pureVars>>

\* lines 191-194: nothing was written, the commit has nothing to do
GetExecute ==
    /\ pc = "exec" /\ op = "get"
    /\ LET res == ExecSelect(rows, data_fields[1], condition[1], condition[2])
       IN  \E engine \in BOOLEAN :
             IF Runnable /\ engine /\ res[1] = "ok"
             THEN /\ output' = Val(res[2])
                  /\ UNCHANGED <<rows, failure>>
             ELSE Failed
    /\ pc' = "finally"
    /\ UNCHANGED <<model, fileExists, dbTables, live, attrs, op, createIdx,
                   createCalled, callVars, result, pureVars>>

\* finally: self.manager.connection.close(), then the return statement
Close(returned) ==
    /\ pc = "finally"
    /\ IF Kind(DictGet(attrs, "connection")) = "None"
       THEN /\ result' = <<"raise", "AttributeError">>
            /\ UNCHANGED <<live, attrs>>
       ELSE /\ live' = live \ {DictGet(attrs, "connection")[2]}
            /\ attrs' = Closed(attrs, DictGet(attrs, "connection")[2])
            /\ result' = returned
    /\ pc' = "done"
    /\ UNCHANGED <<model, storeVars, op, createIdx, createCalled,
                   callVars, output, failure, pureVars>>

\* lines 142-143
AddFinally == op = "add" /\ Close(<<"return", output>>)

\* line 170
UpdateFinally == op = "update" /\ Close(<<"return", None>>)

\* lines 199-210
GetFinally ==
    /\ op = "get"
    /\ Close(IF output = None THEN <<"return", None>>
             ELSE convert_output(output[2], data_fields[2], data_fields[1]))

Next ==
    \/ Construct
    \/ ConnectOpen
    \/ ConnectCursor
    \/ Finalize
    \/ CreateDatabase
    \/ CreateExecute
    \/ CreateFinally
    \/ Add
    \/ Update
    \/ Get
    \/ AddExecute
    \/ UpdateExecute
    \/ GetExecute
    \/ AddFinally
    \/ UpdateFinally
    \/ GetFinally

Spec == Init /\ [][Next]_vars

SpecSchema == InitSchema /\ [][Next]_vars

(***************************************************************************)
(* Dates: every (year, month, day) of the contract's range goes through    *)
(* date_to_sql and back through date_to_dict.                              *)
(***************************************************************************)
Years == (0..YearSpan) \cup ((10^4 - 1 - YearSpan)..(10^4 - 1)) \cup {2023}
Months == 0..(10^2 - 1)
Days == 0..(10^2 - 1)

InitDate ==
    /\ stage = "date"
    /\ inp \in Years \X Months \X Days
    /\ mid = 0
    /\ out = <<>>
    /\ tried = <<>>
    /\ MgrAtRest

DateToSql ==
    /\ stage = "date"
    /\ mid' = date_to_sql(inp)
    /\ stage' = "sql"
    /\ UNCHANGED <<inp, out, tried, mgrVars>>

DateToDict ==
    /\ stage = "sql"
    /\ out' = date_to_dict(mid)
    /\ stage' = "dict"
    /\ UNCHANGED <<inp, mid, tried, mgrVars>>

NextDate == DateToSql \/ DateToDict

SpecDate == InitDate /\ [][NextDate]_vars

(***************************************************************************)
(* Codec: a password is stored, split again, and passwords are matched     *)
(* against the pair.                                                       *)
(***************************************************************************)
InitCodec ==
    /\ stage = "password"
    /\ inp \in Passwords
    /\ mid = <<>>
    /\ out = <<>>
    /\ tried = <<>>
    /\ MgrAtRest

StorePassword ==
    /\ stage = "password"
    /\ \E s \in Salts :
        /\ mid' = store_password(inp, s)
        /\ tried' = <<s>>
    /\ stage' = "stored"
    /\ UNCHANGED <<inp, out, mgrVars>>

GetPassword ==
    /\ stage = "stored"
    /\ out' = get_password(mid)
    /\ stage' = "split"
    /\ UNCHANGED <<inp, mid, tried, mgrVars>>

MatchPassword ==
    /\ stage = "split"
    /\ \E p2 \in Passwords :
        tried' = <<tried[1], p2, match_password(p2, out)>>
    /\ stage' = "matched"
    /\ UNCHANGED <<inp, mid, out, mgrVars>>

NextCodec == StorePassword \/ GetPassword \/ MatchPassword

SpecCodec == InitCodec /\ [][NextCodec]_vars

(***************************************************************************)
(* Shorthands of the statements below.                                     *)
(***************************************************************************)
Calls == {"add", "update", "get"}
Returned == pc = "done" /\ op \in Calls
Declared == {UsersFields[i][1] : i \in DOMAIN UsersFields}
TypeOf(f) == UsersFields[CHOOSE i \in DOMAIN UsersFields : UsersFields[i][1] = f][2]
Constructed == pc \in {"idle", "done"} \/ op \in Calls

(***************************************************************************)
(* C1: every call of Table.add, Table.update, Table.get and Table.create   *)
(* leaves no storage connection open when it exits, on every exit path     *)
(* (a return, or the exception that leaves create and __init__).           *)
(***************************************************************************)
C1_NoConnectionOpenAtExit ==
    (\/ Returned
     \/ pc = "create_database" /\ createIdx > 0
     \/ pc = "ctor_failed") => live = {}

(***************************************************************************)
(* C2: in every reachable state the manager has at most one open           *)
(* connection, and none is open between two operations.                    *)
(***************************************************************************)
C2_AtMostOneConnection ==
    /\ Cardinality(live) <= 1
    /\ pc \in {"idle", "done"} => live = {}

(***************************************************************************)
(* C3: when add, update or get is called with a non-empty field set and    *)
(* opening the connection or executing the statement fails, no exception   *)
(* reaches the caller and the call gives None, whatever the manager did    *)
(* before.                                                                 *)
(***************************************************************************)
C3_FailureGivesNone ==
    (Returned /\ data_fields # <<>> /\ failure \in {"connect", "execute"})
        => result = <<"return", None>>

\* a get that executed, of the fields of the add completed just before it,
\* with the predicate id = (the row id that add returned)
GetAfterAdd ==
    /\ pc = "done" /\ op = "get"
    /\ lastAdd # NoAdd
    /\ DOMAIN data \cap Declared = DOMAIN lastAdd[3] \cap Declared
    /\ condition = <<"id = ?", <<Val(lastAdd[2])>> >>
    /\ failure = "none"

\* field f of the returned row against the value v given to add
FieldAsAdded(f, got, v) ==
    IF TypeOf(f) = "pwd"
    THEN /\ Kind(got) = "val"
         /\ Len(got[2]) = 2
         /\ Len(got[2][1]) = 32
         /\ match_password(v, got[2])
         /\ \A p2 \in Passwords \ {v} : ~match_password(p2, got[2])
    ELSE got = Backward(TypeOf(f), Forward(TypeOf(f), v, 1))[2]

(***************************************************************************)
(* C4: after add(values) returned row id r, a get of the same declared     *)
(* fields with the predicate id = r that executes returns exactly one row; *)
(* its non-pwd fields are backward(forward(v)) of the values added, its    *)
(* pwd field is a (salt, key) pair that matches the added password and no  *)
(* other password.                                                         *)
(***************************************************************************)
C4_GetReturnsTheAddedRow ==
    GetAfterAdd =>
        /\ Kind(result) = "return"
        /\ result[2] # None
        /\ Len(result[2][2]) = 1
        /\ DOMAIN result[2][2][1] = DOMAIN data \cap Declared
        /\ \A f \in DOMAIN data \cap Declared :
              FieldAsAdded(f, result[2][2][1][f], lastAdd[3][f])

C4_Witness ==
    /\ GetAfterAdd
    /\ DOMAIN data = {"name", "pwd"}
    /\ lastAdd[3]["name"] = "alice"
    /\ Kind(result) = "return"
    /\ result[2][2][1]["name"] = Val("alice")
    /\ match_password(lastAdd[3]["pwd"], result[2][2][1]["pwd"][2])

\* the fields update sets, the rows its predicate selects, a row's id after it
UpdateKeys == DOMAIN data \cap Declared
UpdateMatched == Matching(rows0, condition[1], condition[2])
IdAfter(i) == IF i \in UpdateMatched /\ "id" \in UpdateKeys THEN data["id"] ELSE i

(***************************************************************************)
(* C5: update(values, predicate) changes, in the rows that match the       *)
(* predicate, only the declared fields that are keys of values; every      *)
(* other field of those rows and every field of every other row is         *)
(* unchanged.  (A row whose id is a key of values is found under its new   *)
(* id.)                                                                    *)
(***************************************************************************)
C5_UpdateFrame ==
    (pc = "done" /\ op = "update") =>
        \/ rows = rows0
        \/ /\ DOMAIN rows = {IdAfter(i) : i \in DOMAIN rows0}
           /\ \A i \in DOMAIN rows0 : \A f \in DOMAIN rows0[i] :
                 \/ i \in UpdateMatched /\ f \in UpdateKeys
                 \/ rows[IdAfter(i)][f] = rows0[i][f]

C5_Witness ==
    /\ pc = "done" /\ op = "update"
    /\ UpdateKeys = {"name"}
    /\ condition = <<"id = ?", <<Val(1)>> >>
    /\ DOMAIN rows0 = {1, 2}
    /\ rows[1]["name"] # rows0[1]["name"]
    /\ rows[1]["pwd"] = rows0[1]["pwd"]
    /\ rows[1]["pwd"] # None
    /\ rows[2] = rows0[2]

\* the row ids the predicate of get selects, in row order
GetMatched == Ascending(Matching(rows, condition[1], condition[2]))

(***************************************************************************)
(* C6: get returns None if and only if execution failed; when execution    *)
(* succeeds it returns one mapping per matching row, in the engine's row   *)
(* order, and an empty sequence when no row matches.                       *)
(***************************************************************************)
C6_GetNoneIffFailed ==
    (pc = "done" /\ op = "get" /\ data_fields # <<>>) =>
        /\ Kind(result) = "return" => (result[2] = None <=> failure # "none")
        /\ failure = "none" =>
              /\ Kind(result) = "return"
              /\ result[2] # None
              /\ Len(result[2][2]) = Len(GetMatched)
              /\ \A r \in DOMAIN result[2][2] :
                    "id" \in DOMAIN data => result[2][2][r]["id"] = Val(GetMatched[r])

\* the attribute names under which the manager holds a Table
Exposed == {attrs[j][1] : j \in {k \in DOMAIN attrs : Kind(attrs[k][2]) = "Table"}}

(***************************************************************************)
(* C9: once the manager is constructed, every table name of the schema map *)
(* is exposed as the Table built from its field descriptors, the manager's *)
(* own attributes (db_file, connection, cursor) are intact, the exposed    *)
(* tables are exactly the tables of the schema map, and initial setup      *)
(* invoked create() on exactly those.                                      *)
(***************************************************************************)
C9_TablesExposedByName ==
    Constructed =>
        /\ \A i \in DOMAIN model :
              DictGet(attrs, model[i][1]) = <<"Table", model[i][1], model[i][2]>>
        /\ DictGet(attrs, "db_file") = DbFile
        /\ Kind(DictGet(attrs, "connection")) \in {"None", "Connection"}
        /\ Kind(DictGet(attrs, "cursor")) \in {"None", "Cursor"}
        /\ Exposed = DictKeys(model)
        /\ createIdx > 0 => createCalled = DictKeys(model)

(***************************************************************************)
(* C10: add, update or get called with values none of whose keys is a      *)
(* declared field is rejected with a ValidationError before a statement is *)
(* built; no connection is opened and no stored row is changed.            *)
(***************************************************************************)
C10_EmptyFieldSetRejected ==
    (Returned /\ DOMAIN data \cap Declared = {}) =>
        /\ result = <<"raise", "ValidationError">>
        /\ rows = rows0
        /\ live \subseteq live0

(***************************************************************************)
(* C8: for every year in [0, 9999] and every month and day in [0, 99],     *)
(* date_to_dict(date_to_sql((year, month, day))) = (year, month, day),     *)
(* and date_to_sql gives year * 10000 + month * 100 + day; (2023, 1, 5)    *)
(* is stored as 20230105 and read back as (2023, 1, 5).                    *)
(***************************************************************************)
C8_DateRoundTrip ==
    /\ stage \in {"sql", "dict"} =>
        /\ mid = inp[1] * 10000 + inp[2] * 100 + inp[3]
        /\ inp = <<2023, 1, 5>> => mid = 20230105
    /\ stage = "dict" =>
        /\ out = inp
        /\ mid = 20230105 => out = <<2023, 1, 5>>

C8_Witness ==
    /\ stage = "dict"
    /\ inp = <<9999, 99, 99>>
    /\ out = <<9999, 99, 99>>

(***************************************************************************)
(* C7: verify(p, decode(encode(p))) is true, verify(p2, decode(encode(p))) *)
(* is false for p2 # p, and decode returns exactly the salt and the key    *)
(* that encode concatenated, split at byte 32.                             *)
(***************************************************************************)
C7_CodecRoundTrip ==
    /\ stage \in {"split", "matched"} =>
        /\ out[1] = urandom(tried[1])
        /\ out[2] = pbkdf2_hmac(inp, urandom(tried[1]))
        /\ Len(out[1]) = 32
        /\ out[1] \o out[2] = mid
    /\ stage = "matched" => (tried[3] <=> tried[2] = inp)

C7_Witness ==
    /\ stage = "matched"
    /\ tried[2] # inp
    /\ tried[3] = FALSE
    /\ Len(mid) = 64

====
